---- MODULE Spec2Model ----
(***************************************************************************)
(* Model of rlex2's src/lexer.rs: NFABuilder (Thompson construction with a *)
(* shared state-id counter, merge of the registered fragments) and Lexer   *)
(* (add_token, lex).  NFA::into_dfa and DFA::iter belong to the `automata` *)
(* crate; they are modelled as the subset construction and the run walk   *)
(* of the design document (sections 4.3, 4.4).                             *)
(***************************************************************************)
EXTENDS Integers, Sequences, FiniteSets, TLC

\* ------------------------------------------------------------------------
\* Bounds of the model
\* ------------------------------------------------------------------------
MaxRegs == 2      \* add_token calls per behaviour
MaxLex == 2       \* lex calls per behaviour
MaxLen == 3       \* length of the text given to lex

\* ------------------------------------------------------------------------
\* Regular expressions (parse_regex::RegEx): the parser's output
\* ------------------------------------------------------------------------
Terminal(c) == [k |-> "Terminal", c |-> c]
Sequence(v) == [k |-> "Sequence", v |-> v]
Or(r1, r2) == [k |-> "Or", r1 |-> r1, r2 |-> r2]
Repetition(r) == [k |-> "Repetition", r |-> r]

\* Transition::Epsilon; Transition::Input(c) is the character c itself
Epsilon == "eps"

\* characters of the texts
Chars == <<"i", "f">>
Alphabet == {Chars[n] : n \in 1..Len(Chars)}

\* ------------------------------------------------------------------------
\* HashMap<(State, Transition), HashSet<State>>
\* ------------------------------------------------------------------------
EmptyMap == [key \in {} |-> {}]

\* HashMap::insert: replaces the value of a key that is present
Insert(m, key, val) ==
  [x \in (DOMAIN m) \cup {key} |-> IF x = key THEN val ELSE m[x]]

\* the entry loop `for (trans, state) in t { match m.entry(trans).get() ... }`:
\* every entry of t is added to m; dup tells that the loop hit a key already
\* present, where the code panics with "Duplicate states"
MergeEntries(m, t) ==
  [m |-> [x \in (DOMAIN m) \cup (DOMAIN t) |-> IF x \in DOMAIN m THEN m[x] ELSE t[x]],
   dup |-> (DOMAIN m) \cap (DOMAIN t) # {}]

\* NFA::new(start, accept_states, transitions)
NFA(start, accept, trans) == [start |-> start, accept |-> accept, trans |-> trans]

\* result of a builder method: the fragment, the advanced id counter, whether a
\* "Duplicate states" panic was hit, whether an unchecked insert replaced an
\* entry, whether an accept-count assertion failed
Built(nfa, id, dup, ovw, bad) ==
  [nfa |-> nfa, id |-> id, dup |-> dup, ovw |-> ovw, bad |-> bad]

\* accept.len() == 1
OneAccept(n) == Cardinality(n.accept) = 1

\* accept[0]: the only element when the assertion holds
Accept0(n) == CHOOSE a \in n.accept : TRUE

\* construct_terminal_nfa that draws the end state without advancing the
\* counter past it
construct_terminal_nfa_short(c, id) ==
  LET start == id
      end == id + 1
  IN Built(NFA(start, {end}, Insert(EmptyMap, <<start, c>>, {end})),
           id + 1, FALSE, FALSE, FALSE)

\* NFABuilder::construct_terminal_nfa
construct_terminal_nfa(c, id) ==
  LET start == id
      end == id + 1
  IN Built(NFA(start, {end}, Insert(EmptyMap, <<start, c>>, {end})),
           id + 2, FALSE, FALSE, FALSE)

\* construct_or_nfa that keeps the accept states of both branches instead of
\* joining them in a new end state
construct_or_nfa_two_accepts(b1, b2) ==
  LET n1 == b1.nfa
      n2 == b2.nfa
      start == b2.id
      mm == MergeEntries(n1.trans, n2.trans)
      k0 == <<start, Epsilon>>
      m1 == Insert(mm.m, k0, {n1.start, n2.start})
  IN Built(NFA(start, n1.accept \cup n2.accept, m1), b2.id + 2,
           b1.dup \/ b2.dup \/ mm.dup,
           b1.ovw \/ b2.ovw \/ k0 \in DOMAIN mm.m,
           b1.bad \/ b2.bad \/ ~OneAccept(n1) \/ ~OneAccept(n2))

\* NFABuilder::construct_or_nfa, on the two built branches (b2 built after b1)
construct_or_nfa(b1, b2) ==
  LET n1 == b1.nfa
      n2 == b2.nfa
      start == b2.id
      end == b2.id + 1
      mm == MergeEntries(n1.trans, n2.trans)
      k0 == <<start, Epsilon>>
      k1 == <<Accept0(n1), Epsilon>>
      k2 == <<Accept0(n2), Epsilon>>
      m1 == Insert(mm.m, k0, {n1.start, n2.start})
      m2 == Insert(m1, k1, {end})
      m3 == Insert(m2, k2, {end})
  IN Built(NFA(start, {end}, m3), b2.id + 2,
           b1.dup \/ b2.dup \/ mm.dup,
           b1.ovw \/ b2.ovw \/ k0 \in DOMAIN mm.m \/ k1 \in DOMAIN m1
             \/ k2 \in DOMAIN m2,
           b1.bad \/ b2.bad \/ ~OneAccept(n1) \/ ~OneAccept(n2))

\* the loop of NFABuilder::construct_sequence_nfa from element i on
RECURSIVE SequenceLoop(_, _, _, _, _, _, _)
SequenceLoop(v, i, end, m, id, dup, ovw) ==
  IF i > Len(v) THEN [end |-> end, m |-> m, id |-> id, dup |-> dup, ovw |-> ovw]
  ELSE LET n == v[i]
           start == end
           end2 == id
           mm == MergeEntries(m, n.trans)
           k1 == <<start, Epsilon>>
           k2 == <<Accept0(n), Epsilon>>
           m1 == Insert(mm.m, k1, {n.start})
           m2 == Insert(m1, k2, {end2})
       IN SequenceLoop(v, i + 1, end2, m2, id + 1, dup \/ mm.dup,
                       ovw \/ k1 \in DOMAIN mm.m \/ k2 \in DOMAIN m1)

\* construct_sequence_nfa that always ends in a state of its own, reached by an
\* epsilon transition: the empty sequence becomes a start/accept pair
construct_sequence_nfa_pair(bs) ==
  LET init_start == bs.id
      l == SequenceLoop(bs.nfas, 1, init_start, EmptyMap, bs.id + 1, FALSE, FALSE)
      end == l.id
  IN Built(NFA(init_start, {end}, Insert(l.m, <<l.end, Epsilon>>, {end})), l.id + 1,
           bs.dup \/ l.dup, bs.ovw \/ l.ovw,
           bs.bad \/ \E i \in 1..Len(bs.nfas) : ~OneAccept(bs.nfas[i]))

\* NFABuilder::construct_sequence_nfa, on the built elements bs (fragments
\* bs.nfas, counter bs.id)
construct_sequence_nfa(bs) ==
  LET init_start == bs.id
      l == SequenceLoop(bs.nfas, 1, init_start, EmptyMap, bs.id + 1, FALSE, FALSE)
  IN Built(NFA(init_start, {l.end}, l.m), l.id,
           bs.dup \/ l.dup, bs.ovw \/ l.ovw,
           bs.bad \/ \E i \in 1..Len(bs.nfas) : ~OneAccept(bs.nfas[i]))

RECURSIVE regex_to_nfa(_, _)
RECURSIVE MapRegex(_, _, _)

\* v.into_iter().map(|r| self.regex_to_nfa(*r)).collect(), from element i on
MapRegex(v, i, id) ==
  IF i > Len(v) THEN [nfas |-> <<>>, id |-> id, dup |-> FALSE, ovw |-> FALSE, bad |-> FALSE]
  ELSE LET b == regex_to_nfa(v[i], id)
           rest == MapRegex(v, i + 1, b.id)
       IN [nfas |-> <<b.nfa>> \o rest.nfas, id |-> rest.id,
           dup |-> b.dup \/ rest.dup, ovw |-> b.ovw \/ rest.ovw,
           bad |-> b.bad \/ rest.bad]

\* construct_repetition_nfa that repeats by an epsilon edge from its end state
\* back to its start state
construct_repetition_nfa_back(r, id) ==
  LET start == id
      b == regex_to_nfa(r, id + 1)
      n == b.nfa
      end == b.id
      m1 == Insert(n.trans, <<start, Epsilon>>, {n.start, end})
      m2 == Insert(m1, <<Accept0(n), Epsilon>>, {end})
      m3 == Insert(m2, <<end, Epsilon>>, {start})
  IN Built(NFA(start, {end}, m3), b.id + 1, b.dup, b.ovw, b.bad \/ ~OneAccept(n))

\* construct_repetition_nfa without the epsilon edge from start to end (no
\* zero-occurrence path)
construct_repetition_nfa_once(r, id) ==
  LET start == id
      b == regex_to_nfa(r, id + 1)
      n == b.nfa
      end == b.id
      m1 == Insert(n.trans, <<start, Epsilon>>, {n.start})
      m2 == Insert(m1, <<Accept0(n), Epsilon>>, {n.start, end})
  IN Built(NFA(start, {end}, m2), b.id + 1, b.dup, b.ovw, b.bad \/ ~OneAccept(n))

\* NFABuilder::construct_repetition_nfa
construct_repetition_nfa(r, id) ==
  LET start == id
      b == regex_to_nfa(r, id + 1)
      n == b.nfa
      end == b.id
      k0 == <<start, Epsilon>>
      k1 == <<Accept0(n), Epsilon>>
      m1 == Insert(n.trans, k0, {n.start, end})
      m2 == Insert(m1, k1, {n.start, end})
  IN Built(NFA(start, {end}, m2), b.id + 1, b.dup,
           b.ovw \/ k0 \in DOMAIN n.trans \/ k1 \in DOMAIN m1,
           b.bad \/ ~OneAccept(n))

\* regex_to_nfa that compiles the second branch of an Or from the counter value
\* the first branch started from
regex_to_nfa_same_id(r, id) ==
  CASE r.k = "Or" ->
         LET b1 == regex_to_nfa(r.r1, id)
             b2 == regex_to_nfa(r.r2, id)
         IN construct_or_nfa(b1, b2)
    [] r.k = "Sequence" -> construct_sequence_nfa(MapRegex(r.v, 1, id))
    [] r.k = "Repetition" -> construct_repetition_nfa(r.r, id)
    [] r.k = "Terminal" -> construct_terminal_nfa(r.c, id)

\* regex_to_nfa that compiles an Or as its first branch alone
regex_to_nfa_left(r, id) ==
  CASE r.k = "Or" -> regex_to_nfa(r.r1, id)
    [] r.k = "Sequence" -> construct_sequence_nfa(MapRegex(r.v, 1, id))
    [] r.k = "Repetition" -> construct_repetition_nfa(r.r, id)
    [] r.k = "Terminal" -> construct_terminal_nfa(r.c, id)

\* NFABuilder::regex_to_nfa
regex_to_nfa(r, id) ==
  CASE r.k = "Or" ->
         LET b1 == regex_to_nfa(r.r1, id)
             b2 == regex_to_nfa(r.r2, b1.id)
         IN construct_or_nfa(b1, b2)
    [] r.k = "Sequence" -> construct_sequence_nfa(MapRegex(r.v, 1, id))
    [] r.k = "Repetition" -> construct_repetition_nfa(r.r, id)
    [] r.k = "Terminal" -> construct_terminal_nfa(r.c, id)

\* NFABuilder::merge_nfas: one fresh start state with an epsilon transition to
\* the start state of every fragment
RECURSIVE MergeLoop(_, _, _, _, _, _, _)
MergeLoop(ns, i, transitions, accept_states, start_states, dup, bad) ==
  IF i > Len(ns)
  THEN [transitions |-> transitions, accept_states |-> accept_states,
        start_states |-> start_states, dup |-> dup, bad |-> bad]
  ELSE LET n == ns[i]
           mm == MergeEntries(transitions, n.trans)
       IN MergeLoop(ns, i + 1, mm.m, accept_states \cup n.accept,
                    start_states \cup {n.start}, dup \/ mm.dup, bad \/ ~OneAccept(n))

\* merge_nfas whose start state leads to the first fragment only
merge_nfas_first(ns, id) ==
  LET start == id
      l == MergeLoop(ns, 1, EmptyMap, {}, {}, FALSE, FALSE)
      k0 == <<start, Epsilon>>
  IN Built(NFA(start, l.accept_states, Insert(l.transitions, k0, {ns[1].start})),
           id + 1, l.dup, k0 \in DOMAIN l.transitions, l.bad)

\* merge_nfas drawing a second id that it does not use
merge_nfas_two_ids(ns, id) ==
  LET start == id
      l == MergeLoop(ns, 1, EmptyMap, {}, {}, FALSE, FALSE)
      k0 == <<start, Epsilon>>
  IN Built(NFA(start, l.accept_states, Insert(l.transitions, k0, l.start_states)),
           id + 2, l.dup, k0 \in DOMAIN l.transitions, l.bad)

\* merge_nfas taking the last id handed out as the start state instead of a
\* fresh one
merge_nfas_stale(ns, id) ==
  LET start == id - 1
      l == MergeLoop(ns, 1, EmptyMap, {}, {}, FALSE, FALSE)
      k0 == <<start, Epsilon>>
  IN Built(NFA(start, l.accept_states, Insert(l.transitions, k0, l.start_states)),
           id + 1, l.dup, k0 \in DOMAIN l.transitions, l.bad)

merge_nfas(ns, id) ==
  LET start == id
      l == MergeLoop(ns, 1, EmptyMap, {}, {}, FALSE, FALSE)
      k0 == <<start, Epsilon>>
  IN Built(NFA(start, l.accept_states, Insert(l.transitions, k0, l.start_states)),
           id + 1, l.dup, k0 \in DOMAIN l.transitions, l.bad)

\* ------------------------------------------------------------------------
\* automata::NFA::into_dfa and automata::DFA::iter (specification 4.3, 4.4)
\* ------------------------------------------------------------------------
\* epsilon-closure(S): the smallest superset of S closed under epsilon moves
RECURSIVE EpsilonClosure(_, _)
EpsilonClosure(trans, S) ==
  LET next == S \cup UNION {trans[<<q, Epsilon>>] :
                              q \in {p \in S : <<p, Epsilon>> \in DOMAIN trans}}
  IN IF next = S THEN S ELSE EpsilonClosure(trans, next)

\* union over the member states of the NFA transitions on symbol c
Move(trans, S, c) ==
  UNION {trans[<<q, c>>] : q \in {p \in S : <<p, c>> \in DOMAIN trans}}

\* the input symbols appearing anywhere in the NFA
Symbols(trans) == {key[2] : key \in DOMAIN trans} \ {Epsilon}

\* the DFA state reached from subset S on symbol c
Reach(trans, S, c) == EpsilonClosure(trans, Move(trans, S, c))

\* a worklist that expands the start state only
ExploreOnce(trans, syms, seen, work) ==
  seen \cup {Reach(trans, S, c) : S \in work, c \in syms}

\* worklist of the subset construction: every unexplored DFA state is expanded
\* on every symbol; identical subsets collapse to one DFA state
RECURSIVE Explore(_, _, _, _)
Explore(trans, syms, seen, work) ==
  IF work = {} THEN seen
  ELSE LET found == {Reach(trans, S, c) : S \in work, c \in syms} \ seen
       IN Explore(trans, syms, seen \cup found, found)

\* registration order of accept state a: the position of its fragment
RegOrder(frags, a) == CHOOSE i \in 1..Len(frags) : a \in frags[i].accept

\* the accept state of subset S with the highest registration order
WinnerLast(frags, accept, S) ==
  CHOOSE a \in S \cap accept :
    \A b \in S \cap accept : RegOrder(frags, a) >= RegOrder(frags, b)

\* the accept state of subset S with the lowest registration order
Winner(frags, accept, S) ==
  CHOOSE a \in S \cap accept :
    \A b \in S \cap accept : RegOrder(frags, a) <= RegOrder(frags, b)

\* nfa.into_dfa(tok_map): (dfa, tok_map of the DFA states)
into_dfa(nfa, tm, frags) ==
  LET syms == Symbols(nfa.trans)
      start == EpsilonClosure(nfa.trans, {nfa.start})
      states == Explore(nfa.trans, syms, {start}, {start})
      accept == {S \in states : S \cap nfa.accept # {}}
  IN [start |-> start,
      states |-> states,
      accept |-> accept,
      trans |-> [key \in states \X syms |-> Reach(nfa.trans, key[1], key[2])],
      tok_map |-> [S \in {A \in accept : Winner(frags, nfa.accept, A) \in DOMAIN tm}
                     |-> tm[Winner(frags, nfa.accept, S)]]]

\* dfa.iter(text): the iterator before its first item, which is the start state
IterNew(d) == [has |-> TRUE, state |-> d.start, pos |-> 0]

\* the iterator after it yielded it.state: it follows the transition on the
\* next character; with no transition, or at the end of the input, it ends
IterAdvance(d, s, it) ==
  IF it.pos < Len(s) /\ <<it.state, s[it.pos + 1]>> \in DOMAIN d.trans
  THEN [has |-> TRUE, state |-> d.trans[<<it.state, s[it.pos + 1]>>], pos |-> it.pos + 1]
  ELSE [has |-> FALSE, state |-> it.state, pos |-> it.pos]

\* ------------------------------------------------------------------------
\* Inputs
\* ------------------------------------------------------------------------
\* the letter class i|f
Letter == Or(Terminal("i"), Terminal("f"))

\* RegExParser::parse on the pattern sources given to add_token:
\*   1 "if"   2 "(i|f)(i|f)*"   3 "f*"   4 "(" (rejected)
Parsed ==
  << [ok |-> TRUE, r |-> Sequence(<<Terminal("i"), Terminal("f")>>)],
     [ok |-> TRUE, r |-> Sequence(<<Letter, Repetition(Letter)>>)],
     [ok |-> TRUE, r |-> Repetition(Terminal("f"))],
     [ok |-> FALSE] >>

\* RegExParser::parse on further pattern sources, nested and with the empty
\* sequence:
\*   5 ""   6 "i"   7 "i|f"   8 "(f*)*"   9 "()*"   10 "()|i"   11 "()f"
\*   12 "i*|if"   13 "(i|f)*f"
Nested ==
  << [ok |-> TRUE, r |-> Sequence(<<>>)],
     [ok |-> TRUE, r |-> Terminal("i")],
     [ok |-> TRUE, r |-> Letter],
     [ok |-> TRUE, r |-> Repetition(Repetition(Terminal("f")))],
     [ok |-> TRUE, r |-> Repetition(Sequence(<<>>))],
     [ok |-> TRUE, r |-> Or(Sequence(<<>>), Terminal("i"))],
     [ok |-> TRUE, r |-> Sequence(<<Sequence(<<>>), Terminal("f")>>)],
     [ok |-> TRUE, r |-> Or(Repetition(Terminal("i")),
                            Sequence(<<Terminal("i"), Terminal("f")>>))],
     [ok |-> TRUE, r |-> Sequence(<<Repetition(Letter), Terminal("f")>>)] >>

parse(regex) == (Parsed \o Nested)[regex]

\* the token registered with each pattern source
TokenOf == <<"IF", "IDENT", "STAR", "BAD", "EMPTY", "I", "LETTER", "STAR2", "STAR0",
             "OPT", "F", "ALT", "ENDF">>

Regexes == 1..Len(Parsed)

\* the pattern sources of the construction runs
BuilderRegexes == 1..Len(Parsed \o Nested)

\* s.chars().collect() of the texts given to lex
Texts == UNION {[1..n -> Alphabet] : n \in 0..MaxLen}

\* ------------------------------------------------------------------------
\* Lexer
\* ------------------------------------------------------------------------
VARIABLES
  state_id,   \* nfa_builder.state_id
  nfas,       \* Lexer.nfas
  tok_map,    \* Lexer.tok_map
  pc,         \* "idle": no call running; "lex": in the loop of lex; "aborted": panicked
  nfa,        \* lex: the merged NFA
  dfa,        \* lex: the DFA and its token map
  it,         \* lex: the iterator dfa.iter(..)
  tok,        \* lex: Option<T>, <<>> for None and <<t>> for Some(t)
  toks,       \* lex: the Vec<T> under construction
  op,         \* the last call: "new", "add_token", "lex"
  regex,      \* the pattern source of the last add_token
  text,       \* the text of the last lex
  ret,        \* the value returned by the last lex
  status,     \* how the last call ended: "ok" (returned) or "panic"
  regs,       \* the pattern sources registered so far, in order
  adds,       \* number of add_token calls
  lexes       \* number of lex calls

lexer == <<state_id, nfas, tok_map>>
locals == <<nfa, dfa, it, tok, toks>>
vars == <<state_id, nfas, tok_map, pc, nfa, dfa, it, tok, toks, op, regex, text, ret,
          status, regs, adds, lexes>>

NoNFA == NFA(0, {}, EmptyMap)
NoDFA == [start |-> {}, states |-> {}, accept |-> {}, trans |-> EmptyMap, tok_map |-> EmptyMap]
NoIter == [has |-> FALSE, state |-> {}, pos |-> 0]

\* Lexer::new, NFABuilder::new
Init ==
  /\ state_id = 0
  /\ nfas = <<>>
  /\ tok_map = EmptyMap
  /\ pc = "idle"
  /\ nfa = NoNFA /\ dfa = NoDFA /\ it = NoIter /\ tok = <<>> /\ toks = <<>>
  /\ op = "new" /\ regex = 0 /\ text = <<>> /\ ret = <<>> /\ status = "ok"
  /\ regs = <<>> /\ adds = 0 /\ lexes = 0

\* a panic unwinds out of the call: nothing runs after it
Panic ==
  /\ pc' = "aborted"
  /\ status' = "panic"
  /\ UNCHANGED <<lexer, locals, ret, regs>>

\* add_token compiling every pattern with a builder of its own (counter 0)
add_token_reset(rx, token) ==
  /\ pc = "idle"
  /\ adds < MaxRegs
  /\ adds' = adds + 1
  /\ op' = "add_token" /\ regex' = rx /\ text' = <<>>
  /\ UNCHANGED lexes
  /\ LET p == parse(rx)
     IN IF ~p.ok THEN Panic
        ELSE LET b == regex_to_nfa(p.r, 0)
             IN IF b.dup \/ b.bad \/ ~OneAccept(b.nfa) THEN Panic
                ELSE /\ state_id' = IF b.id > state_id THEN b.id ELSE state_id
                     /\ nfas' = Append(nfas, b.nfa)
                     /\ tok_map' = Insert(tok_map, Accept0(b.nfa), token)
                     /\ regs' = Append(regs, rx)
                     /\ status' = "ok" /\ ret' = <<>>
                     /\ UNCHANGED <<pc, locals>>

\* add_token recording the token under the start state of the fragment
add_token_start_key(rx, token) ==
  /\ pc = "idle"
  /\ adds < MaxRegs
  /\ adds' = adds + 1
  /\ op' = "add_token" /\ regex' = rx /\ text' = <<>>
  /\ UNCHANGED lexes
  /\ LET p == parse(rx)
     IN IF ~p.ok THEN Panic
        ELSE LET b == regex_to_nfa(p.r, state_id)
             IN IF b.dup \/ b.bad \/ ~OneAccept(b.nfa) THEN Panic
                ELSE /\ state_id' = b.id
                     /\ nfas' = Append(nfas, b.nfa)
                     /\ tok_map' = Insert(tok_map, b.nfa.start, token)
                     /\ regs' = Append(regs, rx)
                     /\ status' = "ok" /\ ret' = <<>>
                     /\ UNCHANGED <<pc, locals>>

\* Lexer::add_token
add_token(rx, token) ==
  /\ pc = "idle"
  /\ adds < MaxRegs
  /\ adds' = adds + 1
  /\ op' = "add_token" /\ regex' = rx /\ text' = <<>>
  /\ UNCHANGED lexes
  /\ LET p == parse(rx)
     IN IF ~p.ok THEN Panic
        ELSE LET b == regex_to_nfa(p.r, state_id)
             IN IF b.dup \/ b.bad \/ ~OneAccept(b.nfa) THEN Panic
                ELSE /\ state_id' = b.id
                     /\ nfas' = Append(nfas, b.nfa)
                     /\ tok_map' = Insert(tok_map, Accept0(b.nfa), token)
                     /\ regs' = Append(regs, rx)
                     /\ status' = "ok" /\ ret' = <<>>
                     /\ UNCHANGED <<pc, locals>>

\* a loop body that keeps the first token found
LoopTokFirst(d, state, t) ==
  IF state \in d.accept /\ t = <<>> THEN <<d.tok_map[state]>> ELSE t

\* the body of the loop of lex on one DFA state: the token of an accepting state
\* replaces the one held
LoopTok(d, state, t) ==
  IF state \in d.accept THEN <<d.tok_map[state]>> ELSE t

\* tok_map.get(state).unwrap() on an accepting state without a token
UnwrapFails(d, state) == state \in d.accept /\ state \notin DOMAIN d.tok_map

\* if let Some(t) = tok { toks.push(t) }
PushTok(ts, t) == IF t # <<>> THEN Append(ts, t[1]) ELSE ts

\* lex merging before it looks at the number of patterns: an id is allocated
\* with no pattern registered
lex_merge_first(s) ==
  /\ pc = "idle"
  /\ lexes < MaxLex
  /\ lexes' = lexes + 1
  /\ op' = "lex" /\ regex' = 0
  /\ UNCHANGED <<nfas, tok_map, regs, adds>>
  /\ LET b == merge_nfas(nfas, state_id)
     IN /\ state_id' = b.id
        /\ IF Len(nfas) = 0
           THEN /\ ret' = <<>> /\ status' = "ok"
                /\ UNCHANGED <<pc, locals>>
           ELSE /\ nfa' = b.nfa
                /\ dfa' = into_dfa(b.nfa, tok_map, nfas)
                /\ it' = IterNew(dfa')
                /\ tok' = <<>> /\ toks' = <<>>
                /\ pc' = "lex" /\ status' = "ok" /\ ret' = <<>>
  /\ text' = s

\* Lexer::lex up to its loop: the early return with no pattern, else the merge
\* and the determinization
lex(s) ==
  /\ pc = "idle"
  /\ lexes < MaxLex
  /\ lexes' = lexes + 1
  /\ op' = "lex" /\ regex' = 0
  /\ UNCHANGED <<nfas, tok_map, regs, adds>>
  /\ IF Len(nfas) = 0
     THEN /\ ret' = <<>> /\ status' = "ok"
          /\ UNCHANGED <<state_id, pc, locals>>
     ELSE LET b == merge_nfas(nfas, state_id)
          IN IF b.dup \/ b.bad
             THEN /\ pc' = "aborted" /\ status' = "panic"
                  /\ UNCHANGED <<state_id, locals, ret>>
             ELSE /\ state_id' = b.id
                  /\ nfa' = b.nfa
                  /\ dfa' = into_dfa(b.nfa, tok_map, nfas)
                  /\ it' = IterNew(dfa')
                  /\ tok' = <<>> /\ toks' = <<>>
                  /\ pc' = "lex" /\ status' = "ok" /\ ret' = <<>>
  /\ text' = s

\* one iteration of `for state in dfa.iter(..)`
lex_loop ==
  /\ pc = "lex"
  /\ it.has
  /\ IF UnwrapFails(dfa, it.state)
     THEN /\ pc' = "aborted" /\ status' = "panic"
          /\ UNCHANGED <<it, tok>>
     ELSE /\ tok' = LoopTok(dfa, it.state, tok)
          /\ it' = IterAdvance(dfa, text, it)
          /\ UNCHANGED <<pc, status>>
  /\ UNCHANGED <<lexer, nfa, dfa, toks, op, regex, text, ret, regs, adds, lexes>>

\* a loop that is left only once the whole text is consumed
lex_return_at_end ==
  /\ pc = "lex"
  /\ ~it.has /\ it.pos = Len(text)
  /\ ret' = PushTok(toks, tok)
  /\ pc' = "idle"
  /\ nfa' = NoNFA /\ dfa' = NoDFA /\ it' = NoIter /\ tok' = <<>> /\ toks' = <<>>
  /\ UNCHANGED <<lexer, op, regex, text, status, regs, adds, lexes>>

\* the end of the loop: the token held is pushed and the Vec returned
lex_return ==
  /\ pc = "lex"
  /\ ~it.has
  /\ ret' = PushTok(toks, tok)
  /\ pc' = "idle"
  /\ nfa' = NoNFA /\ dfa' = NoDFA /\ it' = NoIter /\ tok' = <<>> /\ toks' = <<>>
  /\ UNCHANGED <<lexer, op, regex, text, status, regs, adds, lexes>>

Next ==
  \/ \E rx \in Regexes : add_token(rx, TokenOf[rx])
  \/ \E s \in Texts : lex(s)
  \/ lex_loop
  \/ lex_return

Spec == Init /\ [][Next]_vars

\* the loop of lex runs on: the call is not suspended
FairSpec == Spec /\ WF_vars(lex_loop) /\ WF_vars(lex_return)

\* construction runs: registrations of the nested patterns too, and lex calls
\* (each merges the registered fragments) on the empty text
BuilderNext ==
  \/ \E rx \in BuilderRegexes : add_token(rx, TokenOf[rx])
  \/ lex(<<>>)
  \/ lex_loop
  \/ lex_return

BuilderSpec == Init /\ [][BuilderNext]_vars

\* ------------------------------------------------------------------------
\* Reference definitions used by the properties
\* ------------------------------------------------------------------------
\* the language of a regular expression: s is in L(r)
RECURSIVE Matches(_, _)
RECURSIVE MatchesFrom(_, _, _)

\* s is a concatenation of members of L(v[i]), L(v[i+1]), ..
MatchesFrom(v, i, s) ==
  IF i > Len(v) THEN s = <<>>
  ELSE \E n \in 0..Len(s) :
          /\ Matches(v[i], SubSeq(s, 1, n))
          /\ MatchesFrom(v, i + 1, SubSeq(s, n + 1, Len(s)))

Matches(r, s) ==
  CASE r.k = "Terminal" -> s = <<r.c>>
    [] r.k = "Or" -> Matches(r.r1, s) \/ Matches(r.r2, s)
    [] r.k = "Sequence" -> MatchesFrom(r.v, 1, s)
    [] r.k = "Repetition" ->
         \/ s = <<>>
         \/ \E n \in 1..Len(s) :
              /\ Matches(r.r, SubSeq(s, 1, n))
              /\ Matches(r, SubSeq(s, n + 1, Len(s)))

\* the registrations (positions in rs) whose pattern matches s
Matching(rs, s) == {i \in 1..Len(rs) : Matches(parse(rs[i]).r, s)}

\* the lengths n of the prefixes of s from position p that some registration matches
MatchLens(rs, s, p) ==
  {n \in 0..(Len(s) - p) : Matching(rs, SubSeq(s, p + 1, p + n)) # {}}

Max(S) == CHOOSE n \in S : \A m \in S : m <= n
Min(S) == CHOOSE n \in S : \A m \in S : n <= m

\* a lex call has returned
LexReturned == op = "lex" /\ pc = "idle" /\ status = "ok"

\* the whole of Lexer::lex as a function of the lexer fields and the text
RECURSIVE LexWalk(_, _, _, _)
LexWalk(d, s, i, t) ==
  IF ~i.has THEN t
  ELSE LexWalk(d, s, IterAdvance(d, s, i), LoopTok(d, i.state, t))

LexOf(id, ns, tm, s) ==
  IF Len(ns) = 0 THEN <<>>
  ELSE LET b == merge_nfas(ns, id)
           d == into_dfa(b.nfa, tm, ns)
       IN PushTok(<<>>, LexWalk(d, s, IterNew(d), <<>>))

\* the fields of a new lexer after add_token on each of rs, from position i on
RECURSIVE Registered(_, _, _, _, _)
Registered(rs, i, id, ns, tm) ==
  IF i > Len(rs) THEN [state_id |-> id, nfas |-> ns, tok_map |-> tm]
  ELSE LET b == regex_to_nfa(parse(rs[i]).r, id)
       IN Registered(rs, i + 1, b.id, Append(ns, b.nfa),
                     Insert(tm, Accept0(b.nfa), TokenOf[rs[i]]))

FreshLexer(rs) == Registered(rs, 1, 0, <<>>, EmptyMap)

\* the tokens of the maximal matches of s from position p on, each segment the
\* longest non-empty prefix some registration matches, its token the one of the
\* earliest such registration
RECURSIVE Segments(_, _, _)
Segments(rs, s, p) ==
  IF p >= Len(s) THEN <<>>
  ELSE LET n == Max(MatchLens(rs, s, p) \ {0})
       IN <<TokenOf[rs[Min(Matching(rs, SubSeq(s, p + 1, p + n)))]]>>
            \o Segments(rs, s, p + n)

\* s from position p on is a concatenation of maximal matches
RECURSIVE Segmentable(_, _, _)
Segmentable(rs, s, p) ==
  \/ p >= Len(s)
  \/ /\ MatchLens(rs, s, p) \ {0} # {}
     /\ Segmentable(rs, s, p + Max(MatchLens(rs, s, p) \ {0}))

\* the longest prefix of text that some registration matches
LongestPrefix == SubSeq(text, 1, Max(MatchLens(regs, text, 0)))

\* the DFA accepts s: the table has a transition on every character and the
\* state reached is accepting
RECURSIVE DFARun(_, _, _, _)
DFARun(d, state, s, i) ==
  IF i > Len(s) THEN state \in d.accept
  ELSE /\ <<state, s[i]>> \in DOMAIN d.trans
       /\ DFARun(d, d.trans[<<state, s[i]>>], s, i + 1)

DFAAccepts(d, s) == DFARun(d, d.start, s, 1)

\* epsilon-closure simulation run directly on the NFA n
RECURSIVE NFARun(_, _, _, _)
NFARun(n, S, s, i) ==
  IF i > Len(s) THEN S \cap n.accept # {}
  ELSE NFARun(n, EpsilonClosure(n.trans, Move(n.trans, S, s[i])), s, i + 1)

NFAAccepts(n, s) == NFARun(n, EpsilonClosure(n.trans, {n.start}), s, 1)

\* ------------------------------------------------------------------------
\* Properties
\* ------------------------------------------------------------------------

\* C1: on a text that is a concatenation of maximal matches, lex returns the
\* full ordered sequence of tokens, one per longest-match segment.
C1_FullSequence ==
  (LexReturned /\ Len(regs) > 0 /\ text # <<>> /\ Segmentable(regs, text, 0))
    => ret = Segments(regs, text, 0)

\* C2: the token lex emits is a token of the longest prefix of the text that
\* the registered patterns accept, not of a shorter accepted prefix; with no
\* accepted prefix nothing is emitted.
C2_LongestMatch ==
  (LexReturned /\ Len(regs) > 0) =>
    IF MatchLens(regs, text, 0) = {} THEN ret = <<>>
    ELSE /\ Len(ret) = 1
         /\ \E i \in Matching(regs, LongestPrefix) : ret[1] = TokenOf[regs[i]]

\* C2 witness: "if" and the identifier pattern registered, lex("ifi") = [IDENT]
C2_Witness ==
  /\ LexReturned
  /\ regs = <<1, 2>>
  /\ text = <<"i", "f", "i">>
  /\ ret = <<"IDENT">>

C4_UnrecognizedInput ==
  (op = "lex" /\ pc = "idle" /\ Len(regs) > 0 /\ text # <<>>
     /\ MatchLens(regs, text, 0) = {})
    => status = "UnrecognizedInputError"

\* C5: add_token on a pattern the parser rejects ends in a recoverable
\* PatternSyntaxError result, never in an abort.
C5_PatternSyntaxError ==
  (op = "add_token" /\ ~parse(regex).ok)
    => (status = "PatternSyntaxError" /\ pc = "idle")

\* C6: the result of lex depends only on the ordered registrations and the
\* text: it is the result of a new lexer with the same registrations, and the
\* result of calling lex on the same text again.
C6_HistoryIndependent ==
  LexReturned =>
    /\ ret = LexOf(FreshLexer(regs).state_id, FreshLexer(regs).nfas,
                   FreshLexer(regs).tok_map, text)
    /\ ret = LexOf(state_id, nfas, tok_map, text)

\* C6 witness: a lex call returned a token on a lexer whose fragments differ
\* from the ones of a new lexer (an earlier lex call allocated an id between
\* the registrations)
C6_Witness ==
  /\ LexReturned
  /\ Len(regs) = 2
  /\ nfas # FreshLexer(regs).nfas
  /\ ret # <<>>

\* C7: with one pattern registered with token T, lex on any text in the
\* language of the pattern returns [T].
C7_SinglePattern ==
  (LexReturned /\ Len(regs) = 1 /\ Matches(parse(regs[1]).r, text))
    => ret = <<TokenOf[regs[1]]>>

\* C7 witness: the only registered pattern matches the empty text and lex
\* returned its token
C7_Witness ==
  /\ LexReturned
  /\ Len(regs) = 1
  /\ text = <<>>
  /\ Matches(parse(regs[1]).r, text)
  /\ ret = <<TokenOf[regs[1]]>>

\* C8: with no pattern registered, lex returns the empty list without error,
\* without merging or walking a DFA, and without allocating a state id.
C8_EmptyRegistration ==
  (Len(nfas) = 0) =>
    /\ state_id = 0
    /\ nfa = NoNFA /\ dfa = NoDFA /\ it = NoIter
    /\ op = "lex" => (ret = <<>> /\ status = "ok" /\ pc = "idle")

\* C8 witness: lex returned on a non-empty text with no pattern registered
C8_Witness ==
  /\ LexReturned
  /\ Len(nfas) = 0
  /\ text # <<>>
  /\ ret = <<>>

\* C9: scanning terminates: every lex call that entered its loop leaves it.
C9_Terminates == (pc = "lex") ~> (pc # "lex")

\* C9 witness: a pattern matching the empty string is registered, the run
\* accepted at its starting position without consuming a character, and lex
\* returned
C9_Witness ==
  /\ LexReturned
  /\ Matching(regs, <<>>) # {}
  /\ text # <<>>
  /\ MatchLens(regs, text, 0) = {0}
  /\ Len(ret) = 1

\* C10: the DFA obtained from the merged NFA accepts the text iff the
\* epsilon-closure simulation run on the merged NFA accepts it.
C10_LanguageEquivalence ==
  (pc = "lex") => (DFAAccepts(dfa, text) <=> NFAAccepts(nfa, text))

\* C10 witness: a text of two or more characters that the DFA accepts
C10_Witness ==
  /\ pc = "lex"
  /\ Len(text) >= 2
  /\ DFAAccepts(dfa, text)
  /\ NFAAccepts(nfa, text)

\* ------------------------------------------------------------------------
\* Properties of the construction
\* ------------------------------------------------------------------------
\* the state ids occurring in fragment n
States(n) ==
  {n.start} \cup n.accept \cup {key[1] : key \in DOMAIN n.trans}
    \cup UNION {n.trans[key] : key \in DOMAIN n.trans}

\* the fragment registered last, and its pattern
LastNFA == nfas[Len(nfas)]
LastRegEx == parse(regs[Len(regs)]).r

\* add_token has just registered a pattern
Added == op = "add_token" /\ status = "ok" /\ Len(nfas) > 0

\* the construction of registered fragment i, run again from the counter value
\* it started from (the first id drawn is the lowest id of the fragment)
Rebuilt(i) == regex_to_nfa(parse(regs[i]).r, Min(States(nfas[i])))

\* fragment n with every state id raised by k
ShiftNFA(n, k) ==
  NFA(n.start + k, {a + k : a \in n.accept},
      [key \in {<<x[1] + k, x[2]>> : x \in DOMAIN n.trans}
         |-> {q + k : q \in n.trans[<<key[1] - k, key[2]>>]}])

\* how far fragment i lies above fragment i of a new lexer with the same
\* registrations
Offset(i) == nfas[i].start - FreshLexer(regs).nfas[i].start

\* C11: no two registered fragments share a state id, every state id of a
\* fragment is below the id counter, and the counter never decreases.
C11_FreshIds ==
  /\ [](/\ \A i, j \in 1..Len(nfas) :
             i # j => States(nfas[i]) \cap States(nfas[j]) = {}
        /\ \A i \in 1..Len(nfas) : \A q \in States(nfas[i]) : q < state_id)
  /\ [][state_id' >= state_id]_vars

\* C11 witness: two fragments registered with a lex call between them
C11_Witness ==
  /\ Len(nfas) = 2
  /\ Offset(1) = 0
  /\ Offset(2) > 0
  /\ States(nfas[1]) # {} /\ States(nfas[2]) # {}

\* C12: no construction inserts a transition key that is already present: the
\* "Duplicate states" abort is not reached and no unchecked insert replaces an
\* entry, in the fragments and in the merge of any reachable lexer.
C12_NoKeyCollision ==
  /\ \A i \in 1..Len(nfas) :
       /\ Rebuilt(i).nfa = nfas[i]
       /\ ~Rebuilt(i).dup
       /\ ~Rebuilt(i).ovw
  /\ Len(nfas) > 0 =>
       (~merge_nfas(nfas, state_id).dup /\ ~merge_nfas(nfas, state_id).ovw)
  /\ (op = "add_token" /\ parse(regex).ok) => status = "ok"

\* C12 witness: an Or and a nested Sequence are registered and a lex call has
\* merged them
C12_Witness ==
  /\ LexReturned
  /\ regs = <<12, 13>>
  /\ ~merge_nfas(nfas, state_id).dup

\* C13: every fragment has exactly one accept state, so no accept-count
\* assertion fails.
C13_OneAccept ==
  /\ \A i \in 1..Len(nfas) : Cardinality(nfas[i].accept) = 1 /\ ~Rebuilt(i).bad
  /\ Len(nfas) > 0 => ~merge_nfas(nfas, state_id).bad
  /\ status = "panic" => (op = "add_token" /\ ~parse(regex).ok)

\* C13 witness: the empty sequence and a nested pattern are registered
C13_Witness ==
  /\ Added
  /\ regs = <<5, 12>>
  /\ Cardinality(nfas[1].accept) = 1
  /\ Cardinality(nfas[2].accept) = 1

\* C14: the fragment built for a regular expression accepts exactly the texts
\* in the language of the expression.
C14_FragmentLanguage ==
  Added => \A s \in Texts : NFAAccepts(LastNFA, s) <=> Matches(LastRegEx, s)

\* C14 witness: the fragment of "(i|f)*f" accepts "iff" and rejects "fi"
C14_Witness ==
  /\ Added
  /\ regs[Len(regs)] = 13
  /\ NFAAccepts(LastNFA, <<"i", "f", "f">>)
  /\ ~NFAAccepts(LastNFA, <<"f", "i">>)

\* C15 as stated: the fragment of the empty sequence is a start state and a
\* different accept state connected by an epsilon transition.
C15_EpsilonPair ==
  (Added /\ regs[Len(regs)] = 5) =>
    /\ Cardinality(LastNFA.accept) = 1
    /\ LastNFA.start \notin LastNFA.accept
    /\ <<LastNFA.start, Epsilon>> \in DOMAIN LastNFA.trans
    /\ LastNFA.trans[<<LastNFA.start, Epsilon>>] = LastNFA.accept

\* C15 amended: compiling the empty sequence does not abort and yields a
\* fragment of one state, start and single accept state at once, with no
\* transition, accepting exactly the empty text.
C15_EmptySequence ==
  /\ (op = "add_token" /\ regex = 5) => status = "ok"
  /\ (Added /\ regs[Len(regs)] = 5) =>
       /\ LastNFA.accept = {LastNFA.start}
       /\ DOMAIN LastNFA.trans = {}
       /\ \A s \in Texts : NFAAccepts(LastNFA, s) <=> s = <<>>

\* C15 witness: the empty sequence has just been registered
C15_Witness ==
  /\ Added
  /\ regs[Len(regs)] = 5
  /\ NFAAccepts(LastNFA, <<>>)

\* C16: the merged NFA has a newly drawn start state with one epsilon
\* transition to exactly the fragment start states, the union of the fragment
\* accept states, otherwise exactly the transitions of the fragments, and it
\* accepts a text iff some fragment does.
C16_MergedNFA ==
  (pc = "lex") =>
    /\ nfa.start = state_id - 1
    /\ \A i \in 1..Len(nfas) : nfa.start \notin States(nfas[i])
    /\ DOMAIN nfa.trans =
         {<<nfa.start, Epsilon>>} \cup UNION {DOMAIN nfas[i].trans : i \in 1..Len(nfas)}
    /\ nfa.trans[<<nfa.start, Epsilon>>] = {nfas[i].start : i \in 1..Len(nfas)}
    /\ \A i \in 1..Len(nfas) : \A key \in DOMAIN nfas[i].trans :
         nfa.trans[key] = nfas[i].trans[key]
    /\ nfa.accept = UNION {nfas[i].accept : i \in 1..Len(nfas)}
    /\ NFAAccepts(nfa, text) <=> \E i \in 1..Len(nfas) : NFAAccepts(nfas[i], text)

\* C16 witness: two fragments merged, the text accepted by the second only
C16_Witness ==
  /\ pc = "lex"
  /\ Len(nfas) = 2
  /\ ~NFAAccepts(nfas[1], text)
  /\ NFAAccepts(nfas[2], text)
  /\ NFAAccepts(nfa, text)

\* C17: a lex call leaves the registered fragments and the token map
\* unchanged; it advances the id counter by exactly one, at its start, when a
\* pattern is registered, and not at all otherwise.
C17_LexFrame ==
  [][(pc = "lex" \/ lexes' # lexes) =>
       /\ nfas' = nfas
       /\ tok_map' = tok_map
       /\ state_id' = state_id + (IF lexes' # lexes /\ Len(nfas) > 0 THEN 1 ELSE 0)]_vars

\* C17 witness: two lex calls returned after the two registrations
C17_Witness ==
  /\ LexReturned
  /\ Len(regs) = 2
  /\ nfas = FreshLexer(regs).nfas
  /\ tok_map = FreshLexer(regs).tok_map
  /\ state_id = FreshLexer(regs).state_id + 2

C19_NoAbort ==
  /\ op = "lex" => (status = "ok" /\ pc # "aborted")
  /\ pc = "lex" => \A S \in dfa.accept : S \in DOMAIN dfa.tok_map

\* C19 witness: lex returned a token on a text with a character that no
\* registered pattern has
C19_Witness ==
  /\ LexReturned
  /\ regs = <<3>>
  /\ text = <<"f", "i", "f">>
  /\ ret = <<"STAR">>

\* C20: in every fragment the accept state has no outgoing transition.
C20_AcceptNoOutgoing ==
  \A i \in 1..Len(nfas) : \A key \in DOMAIN nfas[i].trans :
    key[1] \notin nfas[i].accept

\* C20 witness: a nested repetition and an Or of a repetition are registered
C20_Witness ==
  /\ Added
  /\ regs = <<8, 12>>
  /\ \A key \in DOMAIN nfas[1].trans : key[1] \notin nfas[1].accept

====
